---- MODULE Spec2Model ----
(***************************************************************************)
(* Model of src/walk_chain.ts: the cycle-checking chain traversals         *)
(* walkChainCallSync, async walkChainCall, walkChainMerge,                 *)
(* walkChainIdCallSync, async walkChainIdCall and walkChainIdMerge.        *)
(*                                                                         *)
(* A node is an object identity (a number from 1 on) with three fields:    *)
(* the link field (node[linkName]), the identifier field (node[idName])    *)
(* and the merged field (node[mergeProperty]).  One behaviour is one       *)
(* traversal: Init draws the arguments of the call, the actions are the    *)
(* steps of the inner function `recursion`.                                *)
(* The later definitions of walkChainCall, walkChainMerge, walkChainIdCall  *)
(* and walkChainIdMerge (lines 369-498) are modelled by a specification of  *)
(* their own, LegacySpec, over the same variables.                          *)
(*                                                                         *)
(* Values.  The JavaScript value undefined is written Undefined (0) where  *)
(* a node, an identifier or `data` is expected, and UndefinedValue (<<>>)  *)
(* where an accumulator or a merged value is expected.  The callback and   *)
(* the merge function are parameters of the traversals; they are modelled  *)
(* by injective term constructors, so that two different call histories    *)
(* never produce the same value.                                           *)
(***************************************************************************)
EXTENDS Integers, Sequences, FiniteSets, TLC

\* number of node objects of a call
NumNodes == 3

\* length of nodeList in the indirect traversals
MaxListLen == 2

\* depth of nested `recursion` frames the runtime allows before it gives up
MaxDepth == 6

Undefined == 0

UndefinedValue == << >>

Nodes == 1..NumNodes

\* identifier values a node[idName] / node[linkName] may hold in the indirect traversals
Ids == {1, 2}

\* values of the optional `data` argument (Undefined: argument omitted)
DataVals == {Undefined, 1}

CallSyncFns == {"walkChainCallSync", "walkChainIdCallSync"}

CallAsyncFns == {"walkChainCall", "walkChainIdCall"}

CallFns == CallSyncFns \cup CallAsyncFns

MergeFns == {"walkChainMerge", "walkChainIdMerge"}

DirectFns == {"walkChainCallSync", "walkChainCall", "walkChainMerge"}

IdFns == {"walkChainIdCallSync", "walkChainIdCall", "walkChainIdMerge"}

\* the second definitions of the file (lines 369-498), which share names with the
\* async traversals above
LegacyCallFns == {"walkChainCall (line 369)", "walkChainIdCall (line 426)"}

LegacyMergeFns == {"walkChainMerge (line 395)", "walkChainIdMerge (line 468)"}

LegacyDirectFns == {"walkChainCall (line 369)", "walkChainMerge (line 395)"}

LegacyIdFns == {"walkChainIdCall (line 426)", "walkChainIdMerge (line 468)"}

VARIABLES
    fn,            \* the traversal that is called
    nodes,         \* the node objects: identity -> [link, id, mergeProperty]
    nodeList,      \* argument nodeList (indirect traversals), a sequence of node identities
    startNode,     \* argument startNode
    data,          \* argument data
    failing,       \* argument callback: the node at which it throws / rejects (Undefined: none)
    pc,            \* position of the traversal
    node,          \* parameter `node` of the current recursion frame
    lastValue,     \* parameter `lastValue` of the current recursion frame
    dataArg,       \* parameter `data` of the current recursion frame
    visitedNodes,  \* the array visitedNodes
    calls,         \* history: the callback invocations, in order
    inFlight,      \* indexes (into calls) of callbacks invoked and not yet settled
    settled,       \* history: indexes of callbacks in the order they settled
    stack,         \* merge traversals: the suspended recursion frames
    returnValue,   \* value returned by the innermost finished recursion frame
    mergeCalls,    \* history: the mergeFunction invocations, in order
    resolved,      \* history: per visited node, how its next node was resolved
    result,        \* value returned to the caller of the traversal
    thrown         \* failure that reached the caller of the traversal (NoFailure: none)

inputs == <<fn, nodes, nodeList, startNode, data, failing>>

vars == <<fn, nodes, nodeList, startNode, data, failing, pc, node, lastValue, dataArg,
          visitedNodes, calls, inFlight, settled, stack, returnValue, mergeCalls, resolved,
          result, thrown>>

----
\* The caller's functions

\* callback(node, lastValue, data): the concatenating callback
\* (node, acc) => acc === undefined ? node.id : acc + node.id
Callback(nd, last, d) == Append(last, nd)

\* the callback fails for node nd: it throws (sync) or its promise rejects (async)
CallbackThrows(nd) == nd = failing

\* the failure raised by the callback for node nd
CallbackError(nd) == <<"callback failed", nd>>

NoFailure == << >>

\* mergeFunction(nodeOne, nodeTwo): an uninterpreted binary function
MergeFunction(one, two) == <<one, two>>

\* the value held by node nd's merged field when it is present
LocalObject(nd) == <<nd>>

----
\* Library functions used by the traversals

\* mutant: the test for a visited node never succeeds
IncludesNever(visited, x) == FALSE

\* mutant: the current node is not yet in the list when the test is made
IncludesExceptCurrent(visited, x) == \E i \in 1..(Len(visited) - 1) : visited[i] = x

\* mutant: only the node pushed last is compared
IncludesOnlyLast(visited, x) == visited # << >> /\ visited[Len(visited)] = x

\* Array.prototype.includes on visitedNodes (identity of objects)
Includes(visited, x) == \E i \in 1..Len(visited) : visited[i] = x

\* mutant: every identifier compares equal to the link value
LooseEqAny(a, b) == TRUE

\* the comparison nd[idName] == linkId; identifiers are strings or undefined, and on
\* these == holds exactly between equal values (undefined == undefined included)
LooseEq(a, b) == a = b

\* mutant: the last matching element is taken
FindLast(nds, list, linkId) ==
    LET m == {j \in 1..Len(list) : nds[list[j]].id = linkId} IN
    IF m = {} THEN [found |-> Undefined, comparisons |-> Len(list)]
    ELSE [found |-> list[CHOOSE j \in m : \A k \in m : k <= j], comparisons |-> Len(list)]

\* Array.prototype.find(nd => nd[idName] == linkId): scans from index i on;
\* returns the element found (or Undefined) and the number of comparisons made
RECURSIVE FindFrom(_, _, _, _)

FindFrom(nds, list, linkId, i) ==
    IF i > Len(list) THEN [found |-> Undefined, comparisons |-> i - 1]
    ELSE IF LooseEq(nds[list[i]].id, linkId) THEN [found |-> list[i], comparisons |-> i]
    ELSE FindFrom(nds, list, linkId, i + 1)

Find(nds, list, linkId) == FindFrom(nds, list, linkId, 1)

----
\* Resolution of the next node

\* mutant: the search is made whatever the link value
LinkNeverAbsent(linkId) == FALSE

\* the test linkId === undefined made before the search
LinkAbsent(linkId) == linkId = Undefined

\* direct traversals: nextNode = node[linkName], then the two stop tests
ResolveDirect(nds, visited, nd) ==
    LET nextNode == nds[nd].link IN
    IF Includes(visited, nextNode)
    THEN [stop |-> TRUE, next |-> nextNode, comparisons |-> 0, outcome |-> "cycle"]
    ELSE IF nextNode = Undefined
    THEN [stop |-> TRUE, next |-> nextNode, comparisons |-> 0, outcome |-> "nolink"]
    ELSE [stop |-> FALSE, next |-> nextNode, comparisons |-> 0, outcome |-> "deeper"]

\* mutant: the indirect resolution without the test for a visited node
ResolveIdWithoutCycleTest(nds, list, visited, nd) ==
    LET f == Find(nds, list, nds[nd].link) IN
    IF LinkAbsent(nds[nd].link) \/ f.found = Undefined
    THEN [stop |-> TRUE, next |-> Undefined, comparisons |-> 0, outcome |-> "nolink"]
    ELSE [stop |-> FALSE, next |-> f.found, comparisons |-> f.comparisons,
          outcome |-> "deeper"]

\* indirect traversals: linkId test, nodeList.find, then the two stop tests
ResolveId(nds, list, visited, nd) ==
    LET linkId == nds[nd].link IN
    IF LinkAbsent(linkId)
    THEN [stop |-> TRUE, next |-> Undefined, comparisons |-> 0, outcome |-> "nolink"]
    ELSE LET f == Find(nds, list, linkId) IN
         IF Includes(visited, f.found)
         THEN [stop |-> TRUE, next |-> f.found, comparisons |-> f.comparisons,
               outcome |-> "cycle"]
         ELSE IF f.found = Undefined
         THEN [stop |-> TRUE, next |-> f.found, comparisons |-> f.comparisons,
               outcome |-> "dangling"]
         ELSE [stop |-> FALSE, next |-> f.found, comparisons |-> f.comparisons,
               outcome |-> "deeper"]

Resolve(f, nds, list, visited, nd) ==
    IF f \in DirectFns THEN ResolveDirect(nds, visited, nd)
    ELSE ResolveId(nds, list, visited, nd)

\* mutant: the nested call is made without the data argument
PassDataDropped(d) == Undefined

\* the argument `data` handed to the nested call recursion(nextNode, returnValue, visitedNodes, data)
PassData(d) == d

\* mutant: the frame's own lastValue is handed on
PassValueStale(ret, last) == last

\* the argument `returnValue` handed to the nested call as its lastValue
PassValue(ret, last) == ret

\* mutant: the callback's promise is not awaited
NotAwaited(pending, i) == TRUE

\* `await callback(...)`: the frame resumes once callback number i has settled
Awaited(pending, i) == i \notin pending

\* the promise of callback number i, as a value
PendingPromise(i) == <<"promise", i>>

\* mutant: the frame goes on with the promise instead of the value it settles to
AwaitValueNotUnwrapped(pending, i, value) == PendingPromise(i)

\* the value of `await callback(...)` for callback number i: the value its promise
\* is fulfilled with; a promise that has not settled has no value to give but itself
AwaitValue(pending, i, value) == IF i \in pending THEN PendingPromise(i) ELSE value

\* mutant: the traversal replaces the callback's failure by one of its own
PropagatedWrapped(err) == <<"traversal failed", err>>

\* no frame of recursion catches: a failure leaves every frame and the traversal as it is
Propagated(err) == err

\* mutant: the array pushed to is nodeList itself
ListAfterPushShared(list, nd) == Append(list, nd)

\* nodeList after visitedNodes.push(node): visitedNodes is the array created by the
\* literal [] of the outermost call, another object than nodeList, which stays as it is
ListAfterPush(list, nd) == list

\* mutant: the local value is merged even when undefined
PropertyNeverAbsent(localProperty) == FALSE

\* mutant: the test is inverted
PropertyAbsentInverted(localProperty) == localProperty # UndefinedValue

\* the test localProperty === undefined that skips mergeFunction
PropertyAbsent(localProperty) == localProperty = UndefinedValue

\* mutant: the arguments are exchanged
MergeCallSwapped(rest, localProperty) == MergeFunction(localProperty, rest)

\* mutant: an undefined result of the farther nodes is not merged
MergeCallSkippingUndefined(rest, localProperty) ==
    IF rest = UndefinedValue THEN localProperty ELSE MergeFunction(rest, localProperty)

\* the call mergeFunction(recursion(nextNode, visitedNodes), localProperty)
MergeCall(rest, localProperty) == MergeFunction(rest, localProperty)

\* a nested call of recursion is possible while the runtime has frames left
FrameAvailable(visited) == Len(visited) < MaxDepth

----
\* The direct traversals as functions of their arguments

\* the nodes for which recursion is entered by a direct traversal started with
\* recursion(nd, ..., visited, ...), in order
RECURSIVE WalkDirect(_, _, _)

WalkDirect(nds, visited, nd) ==
    LET pushed == Append(visited, nd)
        r == ResolveDirect(nds, pushed, nd)
    IN IF r.stop THEN pushed ELSE WalkDirect(nds, pushed, r.next)

\* the same for an indirect traversal
RECURSIVE WalkId(_, _, _, _)

WalkId(nds, list, visited, nd) ==
    LET pushed == Append(visited, nd)
        r == ResolveId(nds, list, pushed, nd)
    IN IF r.stop THEN pushed ELSE WalkId(nds, list, pushed, r.next)

\* the value returned by the frame of walkChainMerge's recursion for path[i]
RECURSIVE MergeAlong(_, _, _)

MergeAlong(nds, path, i) ==
    LET localProperty == nds[path[i]].mergeProperty IN
    IF i = Len(path) THEN localProperty
    ELSE IF PropertyAbsent(localProperty) THEN MergeAlong(nds, path, i + 1)
    ELSE MergeCall(MergeAlong(nds, path, i + 1), localProperty)

\* the mergeFunction calls made by that frame and the frames nested in it, in order
RECURSIVE MergeCallsAlong(_, _, _)

MergeCallsAlong(nds, path, i) ==
    LET localProperty == nds[path[i]].mergeProperty IN
    IF i = Len(path) THEN << >>
    ELSE IF PropertyAbsent(localProperty) THEN MergeCallsAlong(nds, path, i + 1)
    ELSE Append(MergeCallsAlong(nds, path, i + 1),
                [node |-> path[i], nodeOne |-> MergeAlong(nds, path, i + 1),
                 nodeTwo |-> localProperty])

\* the value returned by walkChainCallSync's recursion for path[i], called with last
RECURSIVE CallAlong(_, _, _, _)

CallAlong(path, i, last, d) ==
    LET ret == Callback(path[i], last, d) IN
    IF i = Len(path) THEN ret ELSE CallAlong(path, i + 1, PassValue(ret, last), PassData(d))

----
\* The arguments of one call

\* the node objects objs of a call; only the nodes in listed carry an identifier
NodeObjects(objs, listed, linkVals, idVals, propNodes) ==
    { [n \in objs |-> [link |-> l[n],
                       id |-> IF n \in listed THEN i[n] ELSE Undefined,
                       mergeProperty |-> IF n \in p THEN LocalObject(n) ELSE UndefinedValue]] :
        l \in [objs -> linkVals], i \in [listed -> idVals], p \in propNodes }

\* Direct traversals: NumNodes nodes linked to each other, any of them the start node.
\* Indirect traversals: nodeList holds nodes 1..len, and the start node is one of
\* them or one further node that is not in the list.
Init ==
    /\ fn \in CallFns \cup MergeFns
    /\ \E len \in 0..MaxListLen, k \in Nodes :
        /\ IF fn \in DirectFns THEN len = 0 /\ k = NumNodes ELSE k \in {len, len + 1}
        /\ nodeList = [i \in 1..len |-> i]
        /\ nodes \in NodeObjects(1..k, 1..len,
                                 IF fn \in DirectFns THEN (1..k) \cup {Undefined}
                                                     ELSE Ids \cup {Undefined},
                                 Ids \cup {Undefined},
                                 IF fn \in MergeFns THEN SUBSET (1..k) ELSE {{}})
        /\ startNode \in (IF fn \in DirectFns \/ k = len THEN 1..k ELSE {k})
    /\ data \in (IF fn \in CallFns THEN DataVals ELSE {Undefined})
    /\ failing \in (IF fn \in CallFns THEN DOMAIN nodes \cup {Undefined} ELSE {Undefined})
    /\ pc = "call"
    /\ node = Undefined
    /\ lastValue = UndefinedValue
    /\ dataArg = Undefined
    /\ visitedNodes = << >>
    /\ calls = << >>
    /\ inFlight = {}
    /\ settled = << >>
    /\ stack = << >>
    /\ returnValue = UndefinedValue
    /\ mergeCalls = << >>
    /\ resolved = << >>
    /\ result = UndefinedValue
    /\ thrown = NoFailure

----
\* The traversal

\* return recursion(startNode, undefined, [], data)  /  return recursion(startNode, [])
Invoke ==
    /\ pc = "call"
    /\ pc' = "recursion"
    /\ node' = startNode
    /\ lastValue' = UndefinedValue
    /\ dataArg' = data
    /\ visitedNodes' = << >>
    /\ UNCHANGED <<inputs, calls, inFlight, settled, stack, returnValue, mergeCalls,
                   resolved, result, thrown>>

\* the callback failed with err: the failure leaves the frames and reaches the caller
CallbackFailed(err) ==
    /\ pc' = "failed"
    /\ thrown' = Propagated(err)
    /\ UNCHANGED <<node, lastValue, dataArg, returnValue, resolved, result>>

\* the part of a call recursion after the callback's value ret is known
AfterCallback(visited, ret) ==
    LET r == Resolve(fn, nodes, nodeList, visited, node) IN
    /\ resolved' = Append(resolved, r)
    /\ returnValue' = ret
    /\ UNCHANGED thrown
    /\ IF r.stop
       THEN /\ pc' = "done"
            /\ result' = ret
            /\ UNCHANGED <<node, lastValue, dataArg>>
       ELSE /\ pc' = IF FrameAvailable(visited) THEN "recursion" ELSE "overflow"
            /\ node' = r.next
            /\ lastValue' = PassValue(ret, lastValue)
            /\ dataArg' = PassData(dataArg)
            /\ UNCHANGED result

\* one frame of recursion in walkChainCallSync / walkChainIdCallSync
RecursionCallSync ==
    /\ pc = "recursion"
    /\ fn \in CallSyncFns
    /\ LET visited == Append(visitedNodes, node)
           ret == IF CallbackThrows(node) THEN UndefinedValue
                  ELSE Callback(node, lastValue, dataArg)
       IN /\ visitedNodes' = visited
          /\ nodeList' = ListAfterPush(nodeList, node)
          /\ calls' = Append(calls, [node |-> node, lastValue |-> lastValue,
                                     data |-> dataArg, returned |-> ret])
          /\ IF CallbackThrows(node) THEN CallbackFailed(CallbackError(node))
             ELSE AfterCallback(visited, ret)
    /\ UNCHANGED <<fn, nodes, startNode, data, failing, inFlight, settled, stack, mergeCalls>>

\* async walkChainCall / walkChainIdCall: a frame up to `await callback(...)`
RecursionCallAsyncInvoke ==
    /\ pc = "recursion"
    /\ fn \in CallAsyncFns
    /\ visitedNodes' = Append(visitedNodes, node)
    /\ nodeList' = ListAfterPush(nodeList, node)
    /\ calls' = Append(calls, [node |-> node, lastValue |-> lastValue, data |-> dataArg,
                               returned |-> IF CallbackThrows(node) THEN UndefinedValue
                                            ELSE Callback(node, lastValue, dataArg)])
    /\ inFlight' = inFlight \cup {Len(calls) + 1}
    /\ pc' = "await"
    /\ UNCHANGED <<fn, nodes, startNode, data, failing, node, lastValue, dataArg, settled,
                   stack, returnValue, mergeCalls, resolved, result, thrown>>

\* the promise returned by a callback settles: it is fulfilled or rejected
CallbackSettle ==
    /\ \E i \in inFlight :
        /\ inFlight' = inFlight \ {i}
        /\ settled' = Append(settled, i)
    /\ UNCHANGED <<inputs, pc, node, lastValue, dataArg, visitedNodes, calls, stack,
                   returnValue, mergeCalls, resolved, result, thrown>>

\* async walkChainCall / walkChainIdCall: the frame after `await callback(...)`
RecursionCallAsyncResume ==
    /\ pc = "await"
    /\ Awaited(inFlight, Len(calls))
    /\ IF CallbackThrows(node) THEN CallbackFailed(CallbackError(node))
       ELSE AfterCallback(visitedNodes,
                          AwaitValue(inFlight, Len(calls), calls[Len(calls)].returned))
    /\ UNCHANGED <<inputs, visitedNodes, calls, inFlight, settled, stack, mergeCalls>>

\* walkChainMerge / walkChainIdMerge: a frame up to its return or its nested call
RecursionMergeDescend ==
    /\ pc = "recursion"
    /\ fn \in MergeFns
    /\ LET visited == Append(visitedNodes, node)
           localProperty == nodes[node].mergeProperty
           r == Resolve(fn, nodes, nodeList, visited, node)
       IN /\ visitedNodes' = visited
          /\ nodeList' = ListAfterPush(nodeList, node)
          /\ resolved' = Append(resolved, r)
          /\ IF r.stop
             THEN /\ pc' = "return"
                  /\ returnValue' = localProperty
                  /\ UNCHANGED <<node, stack>>
             ELSE /\ pc' = IF FrameAvailable(visited) THEN "recursion" ELSE "overflow"
                  /\ stack' = Append(stack, [node |-> node, localProperty |-> localProperty])
                  /\ node' = r.next
                  /\ UNCHANGED returnValue
    /\ UNCHANGED <<fn, nodes, startNode, data, failing, lastValue, dataArg, calls, inFlight,
                   settled, mergeCalls, result, thrown>>

\* the nested call returned into a suspended frame: skip or mergeFunction(..., localProperty)
RecursionMergeReturn ==
    /\ pc = "return"
    /\ stack # << >>
    /\ LET frame == stack[Len(stack)] IN
        /\ stack' = SubSeq(stack, 1, Len(stack) - 1)
        /\ node' = frame.node
        /\ IF PropertyAbsent(frame.localProperty)
           THEN UNCHANGED <<returnValue, mergeCalls>>
           ELSE /\ returnValue' = MergeCall(returnValue, frame.localProperty)
                /\ mergeCalls' = Append(mergeCalls, [node |-> frame.node,
                                                      nodeOne |-> returnValue,
                                                      nodeTwo |-> frame.localProperty])
    /\ UNCHANGED <<inputs, pc, lastValue, dataArg, visitedNodes, calls, inFlight, settled,
                   resolved, result, thrown>>

\* the outermost frame returned to the caller of the merge traversal
MergeReturnToCaller ==
    /\ pc = "return"
    /\ stack = << >>
    /\ pc' = "done"
    /\ result' = returnValue
    /\ UNCHANGED <<inputs, node, lastValue, dataArg, visitedNodes, calls, inFlight, settled,
                   stack, returnValue, mergeCalls, resolved, thrown>>

Next ==
    \/ Invoke
    \/ RecursionCallSync
    \/ RecursionCallAsyncInvoke
    \/ CallbackSettle
    \/ RecursionCallAsyncResume
    \/ RecursionMergeDescend
    \/ RecursionMergeReturn
    \/ MergeReturnToCaller

Spec == Init /\ [][Next]_vars

----
\* The second definitions of walkChainCall, walkChainMerge, walkChainIdCall and
\* walkChainIdMerge (lines 369-498).  They keep no visitedNodes array, take no data
\* argument, and test the next node for truthiness.

\* nextNode ? ... : ...  (a node object is truthy, undefined is not)
Truthy(x) == x # Undefined

\* node[linkName] == undefined
LooseEqUndefined(x) == x = Undefined

\* the failure of the runtime when no frame is left for a nested call
RangeError == <<"RangeError: Maximum call stack size exceeded">>

LegacyResolveDirect(nds, nd) ==
    LET nextNode == nds[nd].link IN
    IF Truthy(nextNode)
    THEN [stop |-> FALSE, next |-> nextNode, comparisons |-> 0, outcome |-> "deeper"]
    ELSE [stop |-> TRUE, next |-> nextNode, comparisons |-> 0, outcome |-> "nolink"]

LegacyResolveId(nds, list, nd) ==
    IF LooseEqUndefined(nds[nd].link)
    THEN [stop |-> TRUE, next |-> Undefined, comparisons |-> 0, outcome |-> "nolink"]
    ELSE LET f == Find(nds, list, nds[nd].link) IN
         IF Truthy(f.found)
         THEN [stop |-> FALSE, next |-> f.found, comparisons |-> f.comparisons,
               outcome |-> "deeper"]
         ELSE [stop |-> TRUE, next |-> f.found, comparisons |-> f.comparisons,
               outcome |-> "dangling"]

LegacyResolve(f, nds, list, nd) ==
    IF f \in LegacyDirectFns THEN LegacyResolveDirect(nds, nd)
    ELSE LegacyResolveId(nds, list, nd)

\* the arguments of one call, drawn as in Init; the callback does not fail
LegacyInit ==
    /\ fn \in LegacyCallFns \cup LegacyMergeFns
    /\ \E len \in 0..MaxListLen, k \in Nodes :
        /\ IF fn \in LegacyDirectFns THEN len = 0 /\ k = NumNodes ELSE k \in {len, len + 1}
        /\ nodeList = [i \in 1..len |-> i]
        /\ nodes \in NodeObjects(1..k, 1..len,
                                 IF fn \in LegacyDirectFns THEN (1..k) \cup {Undefined}
                                                           ELSE Ids \cup {Undefined},
                                 Ids \cup {Undefined},
                                 IF fn \in LegacyMergeFns THEN SUBSET (1..k) ELSE {{}})
        /\ startNode \in (IF fn \in LegacyDirectFns \/ k = len THEN 1..k ELSE {k})
    /\ data = Undefined
    /\ failing = Undefined
    /\ pc = "call"
    /\ node = Undefined
    /\ lastValue = UndefinedValue
    /\ dataArg = Undefined
    /\ visitedNodes = << >>
    /\ calls = << >>
    /\ inFlight = {}
    /\ settled = << >>
    /\ stack = << >>
    /\ returnValue = UndefinedValue
    /\ mergeCalls = << >>
    /\ resolved = << >>
    /\ result = UndefinedValue
    /\ thrown = NoFailure

\* return recursion(startNode, undefined)  /  return recursion(startNode)
LegacyInvoke ==
    /\ pc = "call"
    /\ pc' = "recursion"
    /\ node' = startNode
    /\ lastValue' = UndefinedValue
    /\ UNCHANGED <<inputs, dataArg, visitedNodes, calls, inFlight, settled, stack,
                   returnValue, mergeCalls, resolved, result, thrown>>

\* one frame of recursion in walkChainCall / walkChainIdCall (lines 378-382, 439-451)
LegacyRecursionCall ==
    /\ pc = "recursion"
    /\ fn \in LegacyCallFns
    /\ LET ret == Callback(node, lastValue, Undefined)
           r == LegacyResolve(fn, nodes, nodeList, node)
           made == Append(calls, [node |-> node, lastValue |-> lastValue,
                                  data |-> Undefined, returned |-> ret])
       IN /\ calls' = made
          /\ resolved' = Append(resolved, r)
          /\ returnValue' = ret
          /\ IF r.stop
             THEN /\ pc' = "done"
                  /\ result' = ret
                  /\ UNCHANGED <<node, lastValue, thrown>>
             ELSE IF FrameAvailable(made)
             THEN /\ pc' = "recursion"
                  /\ node' = r.next
                  /\ lastValue' = ret
                  /\ UNCHANGED <<result, thrown>>
             ELSE /\ pc' = "overflow"
                  /\ thrown' = RangeError
                  /\ UNCHANGED <<node, lastValue, result>>
    /\ UNCHANGED <<inputs, dataArg, visitedNodes, inFlight, settled, stack, mergeCalls>>

\* walkChainMerge / walkChainIdMerge (lines 406-410, 483-495): a frame up to its
\* return or its nested call recursion(nextNode)
LegacyRecursionMergeDescend ==
    /\ pc = "recursion"
    /\ fn \in LegacyMergeFns
    /\ LET localProperty == nodes[node].mergeProperty
           r == LegacyResolve(fn, nodes, nodeList, node)
           frames == Append(stack, [node |-> node, localProperty |-> localProperty])
       IN /\ resolved' = Append(resolved, r)
          /\ IF r.stop
             THEN /\ pc' = "return"
                  /\ returnValue' = localProperty
                  /\ UNCHANGED <<node, stack, thrown>>
             ELSE IF FrameAvailable(frames)
             THEN /\ pc' = "recursion"
                  /\ stack' = frames
                  /\ node' = r.next
                  /\ UNCHANGED <<returnValue, thrown>>
             ELSE /\ pc' = "overflow"
                  /\ thrown' = RangeError
                  /\ UNCHANGED <<node, stack, returnValue>>
    /\ UNCHANGED <<inputs, lastValue, dataArg, visitedNodes, calls, inFlight, settled,
                   mergeCalls, result>>

\* the nested call returned: mergeFunction(recursion(nextNode), localProperty), whatever
\* localProperty is
LegacyRecursionMergeReturn ==
    /\ pc = "return"
    /\ fn \in LegacyMergeFns
    /\ stack # << >>
    /\ LET frame == stack[Len(stack)] IN
        /\ stack' = SubSeq(stack, 1, Len(stack) - 1)
        /\ node' = frame.node
        /\ returnValue' = MergeCall(returnValue, frame.localProperty)
        /\ mergeCalls' = Append(mergeCalls, [node |-> frame.node, nodeOne |-> returnValue,
                                              nodeTwo |-> frame.localProperty])
    /\ UNCHANGED <<inputs, pc, lastValue, dataArg, visitedNodes, calls, inFlight, settled,
                   resolved, result, thrown>>

LegacyNext ==
    \/ LegacyInvoke
    \/ LegacyRecursionCall
    \/ LegacyRecursionMergeDescend
    \/ LegacyRecursionMergeReturn
    \/ MergeReturnToCaller

LegacySpec == LegacyInit /\ [][LegacyNext]_vars

----
\* Vocabulary of the properties

Range(seq) == {seq[i] : i \in 1..Len(seq)}

NoDuplicates(seq) == \A i, j \in 1..Len(seq) : i # j => seq[i] # seq[j]

Min(S) == CHOOSE x \in S : \A y \in S : x <= y

\* positions of nodeList whose identifier equals the link value of node n
Matches(n) == {j \in 1..Len(nodeList) : nodes[nodeList[j]].id = nodes[n].link}

\* the node that node n links to (Undefined: none)
Linked(n) ==
    IF fn \in DirectFns \cup LegacyDirectFns THEN nodes[n].link
    ELSE IF nodes[n].link = Undefined \/ Matches(n) = {} THEN Undefined
    ELSE nodeList[Min(Matches(n))]

\* the chain of a start node: the nodes linked from it, up to a dead end or a repeat
RECURSIVE ChainFrom(_)

ChainFrom(seq) ==
    LET nxt == Linked(seq[Len(seq)]) IN
    IF nxt = Undefined \/ nxt \in Range(seq) THEN seq ELSE ChainFrom(Append(seq, nxt))

Chain == ChainFrom(<<startNode>>)

\* a chain that ends at a node without a next node (and not at a repeat)
EndsAtDeadEnd(chain) == Linked(chain[Len(chain)]) = Undefined

Acyclic == EndsAtDeadEnd(Chain)

Finished == pc = "done"

\* the traversal ended with a failure of the callback
Failed == pc = "failed"

\* the identifiers in nodeList are defined and pairwise distinct, and the start node
\* is an element of nodeList
DistinctIdsWithStartListed ==
    /\ \A j \in 1..Len(nodeList) : nodes[nodeList[j]].id # Undefined
    /\ \A j, k \in 1..Len(nodeList) :
        j # k => nodes[nodeList[j]].id # nodes[nodeList[k]].id
    /\ startNode \in Range(nodeList)

\* the direct-link structure of the indirect one: the link of a node is the element
\* of nodeList whose identifier equals the node's link value, if there is one
DirectStructure ==
    [n \in DOMAIN nodes |->
        [nodes[n] EXCEPT !.link =
            IF nodes[n].link # Undefined /\ Matches(n) # {}
            THEN nodeList[CHOOSE j \in Matches(n) : TRUE]
            ELSE Undefined]]

IsPrefix(seq, of) == Len(seq) <= Len(of) /\ \A i \in 1..Len(seq) : seq[i] = of[i]

\* a measure of the steps a traversal can still take
PcRank ==
    CASE pc = "call" -> 3
      [] pc = "await" -> 2
      [] pc = "recursion" -> 1
      [] pc = "return" -> 1
      [] OTHER -> 0

RemainingWork ==
    3 * (NumNodes - Len(visitedNodes)) + Len(stack) + Cardinality(inFlight) + PcRank

\* cb(chain[k], cb(chain[k-1], ... cb(chain[1], undefined)))
RECURSIVE NestedCallbacks(_, _)

NestedCallbacks(chain, k) ==
    Callback(chain[k], IF k = 1 THEN UndefinedValue ELSE NestedCallbacks(chain, k - 1), data)

LocalValue(n) == nodes[n].mergeProperty

\* merge(merge(... merge(v[Len], v[Len-1]) ..., v[i+1]), v[i])
RECURSIVE MergedFrom(_, _)

MergedFrom(chain, i) ==
    IF i = Len(chain) THEN LocalValue(chain[i])
    ELSE MergeFunction(MergedFrom(chain, i + 1), LocalValue(chain[i]))

AllPresentOn(chain) == \A i \in 1..Len(chain) : LocalValue(chain[i]) # UndefinedValue

AllPresent == AllPresentOn(Chain)

Keys == {"x", "y", "z"}

\* the objects A:{x:1}, B:{y:2}, C:{x:3,z:4}, by position in the chain (0: key absent)
ExampleObject(n) ==
    CASE n = 1 -> [k \in Keys |-> IF k = "x" THEN 1 ELSE 0]
      [] n = 2 -> [k \in Keys |-> IF k = "y" THEN 2 ELSE 0]
      [] n = 3 -> [k \in Keys |-> IF k = "x" THEN 3 ELSE IF k = "z" THEN 4 ELSE 0]
      [] OTHER -> [k \in Keys |-> 0]

ShallowOverride(farther, nearer) ==
    [k \in Keys |-> IF nearer[k] # 0 THEN nearer[k] ELSE farther[k]]

\* a merged value read with mergeFunction = shallow override
RECURSIVE ShallowValue(_, _)

ShallowValue(term, chain) ==
    IF Len(term) = 2
    THEN ShallowOverride(ShallowValue(term[1], chain), ShallowValue(term[2], chain))
    ELSE IF Len(term) = 1
    THEN ExampleObject(CHOOSE i \in 1..Len(chain) : chain[i] = term[1])
    ELSE [k \in Keys |-> 0]

\* {x:1, y:2, z:4}
ExampleMerged == [k \in Keys |-> IF k = "x" THEN 1 ELSE IF k = "y" THEN 2 ELSE 4]

\* a chain A -> B -> C where A and C have the merged property and B has not
MiddleAbsentOn(chain) ==
    /\ Len(chain) = 3
    /\ LocalValue(chain[1]) # UndefinedValue
    /\ LocalValue(chain[2]) = UndefinedValue
    /\ LocalValue(chain[3]) # UndefinedValue

MiddleAbsent == MiddleAbsentOn(Chain)

\* the node at which the walk ended has no merged property
TerminalAbsent ==
    /\ pc \in {"return", "done"}
    /\ LocalValue(visitedNodes[Len(visitedNodes)]) = UndefinedValue

\* the first argument at the bottom of a merged value
RECURSIVE Innermost(_)

Innermost(term) == IF Len(term) = 2 THEN Innermost(term[1]) ELSE term

----
\* C1: every cycle-checking traversal terminates, on every assignment of links (a
\* two-node cycle and a self-link included): each step of a traversal strictly
\* decreases a natural number, and a traversal that has neither returned nor been
\* aborted by a failure of the callback can take a step.
Terminates ==
    /\ [](RemainingWork \in Nat /\ (~(Finished \/ Failed) => ENABLED Next))
    /\ [][RemainingWork' < RemainingWork]_vars

\* a traversal returned on a two-node cycle A -> B -> A
TerminatedOnTwoNodeCycle ==
    /\ Finished
    /\ Len(visitedNodes) = 2
    /\ Linked(visitedNodes[2]) = visitedNodes[1]

\* C2: in the call traversals the callback is invoked exactly once per visited node,
\* in link order from the start node; the first invocation receives undefined, each
\* later one the value returned by the invocation before it, and every invocation
\* receives the data argument of the traversal.
CallbackOncePerNodeThreaded ==
    fn \in CallFns =>
        LET chain == Chain IN
        /\ Len(calls) = Len(visitedNodes)
        /\ NoDuplicates([i \in 1..Len(calls) |-> calls[i].node])
        /\ \A i \in 1..Len(calls) :
            /\ calls[i].node = visitedNodes[i]
            /\ calls[i].node = chain[i]
            /\ calls[i].data = data
            /\ calls[i].lastValue = IF i = 1 THEN UndefinedValue ELSE calls[i - 1].returned
        /\ Finished => Len(calls) = Len(chain)

\* a call traversal with a data argument returned after three invocations
ThreeCallbacksWithData ==
    /\ Finished
    /\ fn \in CallFns
    /\ Len(calls) = 3
    /\ data # Undefined

\* C3: a call traversal returns the value of the callback of the last node visited;
\* on an acyclic chain n0 -> ... -> nk that is cb(nk, cb(..., cb(n0, undefined))),
\* which is not the start node's callback value when k > 0.
ReturnsLastCallbackValue ==
    (Finished /\ fn \in CallFns) =>
        LET chain == Chain IN
        /\ result = calls[Len(calls)].returned
        /\ calls[Len(calls)].node = chain[Len(chain)]
        /\ EndsAtDeadEnd(chain) =>
            /\ result = NestedCallbacks(chain, Len(chain))
            /\ Len(chain) > 1 => result # Callback(startNode, UndefinedValue, data)

\* an acyclic chain A -> B -> C was walked and <<A, B, C>> ("abc") returned
ReturnedAbc ==
    /\ Finished
    /\ fn \in CallFns
    /\ Acyclic
    /\ Len(Chain) = 3
    /\ result = Chain

\* C4: when the next node is a node already visited (the start node included), the
\* walk stops after the current node: no node is processed twice and the result is
\* the one computed at the current node.
StopsAtRepeat ==
    /\ NoDuplicates(visitedNodes)
    /\ \A i \in 1..Len(resolved) :
        Linked(visitedNodes[i]) \in Range(SubSeq(visitedNodes, 1, i)) =>
            /\ resolved[i].stop
            /\ Len(visitedNodes) = i
            /\ pc # "recursion"
            /\ fn \in CallFns => (Finished /\ result = calls[i].returned)
            /\ (fn \in MergeFns /\ Len(stack) = i - 1) =>
                   returnValue = LocalValue(visitedNodes[i])

\* a walk of at least two nodes stopped at a link back to the start node
StoppedAtLinkToStart ==
    /\ Finished
    /\ Len(visitedNodes) >= 2
    /\ Linked(visitedNodes[Len(visitedNodes)]) = startNode

\* C5: on a chain n0 -> ... -> nk whose nodes all have the merged property, a merge
\* traversal returns merge(merge(... merge(vk, v(k-1)) ..., v1), v0); the merge calls
\* go from the end of the chain to the start, each with the result of the farther
\* nodes first and the nearer node's value second, so that with a shallow override
\* A:{x:1}, B:{y:2}, C:{x:3,z:4} gives {x:1,y:2,z:4}.
MergesFromEndToStart ==
    (Finished /\ fn \in MergeFns) =>
        LET chain == Chain IN
        AllPresentOn(chain) =>
            /\ result = MergedFrom(chain, 1)
            /\ Len(mergeCalls) = Len(chain) - 1
            /\ \A j \in 1..Len(mergeCalls) :
                LET i == Len(chain) - j IN
                mergeCalls[j] = [node |-> chain[i], nodeOne |-> MergedFrom(chain, i + 1),
                                 nodeTwo |-> LocalValue(chain[i])]
            /\ Len(chain) = 3 => ShallowValue(result, chain) = ExampleMerged

\* a chain A -> B -> C with all properties present was merged to {x:1,y:2,z:4}
MergedExample ==
    /\ Finished
    /\ fn \in MergeFns
    /\ AllPresent
    /\ Len(Chain) = 3
    /\ Len(mergeCalls) = 2
    /\ ShallowValue(result, Chain) = ExampleMerged

\* C6: a merge traversal calls the merge function at most once per visited node and
\* never for a node whose merged property is undefined; on A -> B -> C with B's
\* property undefined the result is merge(C's value, A's value), one merge call.
MergeSkipsAbsentProperty ==
    fn \in MergeFns =>
        /\ NoDuplicates([j \in 1..Len(mergeCalls) |-> mergeCalls[j].node])
        /\ \A j \in 1..Len(mergeCalls) :
            /\ mergeCalls[j].node \in Range(visitedNodes)
            /\ LocalValue(mergeCalls[j].node) # UndefinedValue
            /\ mergeCalls[j].nodeTwo = LocalValue(mergeCalls[j].node)
        /\ Finished =>
            LET chain == Chain IN
            MiddleAbsentOn(chain) =>
                /\ Len(mergeCalls) = 1
                /\ result = MergeFunction(LocalValue(chain[3]), LocalValue(chain[1]))

\* a three-node chain whose middle node has no merged property was merged
MergedAroundAbsentMiddle ==
    /\ Finished
    /\ fn \in MergeFns
    /\ MiddleAbsent
    /\ Len(visitedNodes) = 3
    /\ Len(mergeCalls) = 1

\* C7: when the node at the end of the chain has an undefined merged property, the
\* merge function is never called with that undefined value as its first argument.
NoMergeWithUndefinedTerminal ==
    fn \in MergeFns =>
        \A j \in 1..Len(mergeCalls) :
            ~(TerminalAbsent /\ mergeCalls[j].nodeOne = UndefinedValue)

\* C7 as amended: the undefined value of the end node is never the second argument of
\* a merge call, but it is the first argument of the first merge call made (that of the
\* nearest earlier node whose property is present), hence the innermost first argument
\* of the result; every later merge call receives the result of the call before it.
UndefinedTerminalIsFirstArgumentOfFirstMerge ==
    (fn \in MergeFns /\ mergeCalls # << >>) =>
        /\ \A j \in 1..Len(mergeCalls) :
            /\ mergeCalls[j].nodeTwo # UndefinedValue
            /\ j > 1 => mergeCalls[j].nodeOne =
                            MergeFunction(mergeCalls[j - 1].nodeOne, mergeCalls[j - 1].nodeTwo)
        /\ mergeCalls[1].nodeOne = LocalValue(visitedNodes[Len(visitedNodes)])
        /\ \A i \in 1..Len(visitedNodes) :
             (visitedNodes[i] = mergeCalls[1].node) =>
                 \A k \in (i + 1)..(Len(visitedNodes) - 1) :
                     LocalValue(visitedNodes[k]) = UndefinedValue
        /\ Finished => Innermost(result) = LocalValue(visitedNodes[Len(visitedNodes)])

\* a merge call was made with the undefined value of the end node as first argument
MergedWithUndefinedTerminal ==
    /\ Finished
    /\ fn \in MergeFns
    /\ TerminalAbsent
    /\ mergeCalls # << >>
    /\ mergeCalls[1].nodeOne = UndefinedValue
    /\ Innermost(result) = UndefinedValue

\* C8: in the async call traversals no two callbacks are in flight at once: a callback
\* is invoked only after the one before it has settled, so the callbacks settle in
\* invocation order and the final accumulator is that of the order of the chain.
CallbacksStrictlySequential ==
    fn \in CallAsyncFns =>
        /\ Cardinality(inFlight) <= 1
        /\ inFlight \subseteq {Len(calls)}
        /\ settled = [i \in 1..Len(settled) |-> i]
        /\ Range(settled) \cup inFlight = 1..Len(calls)
        /\ Finished =>
            /\ inFlight = {}
            /\ result = NestedCallbacks(visitedNodes, Len(visitedNodes))

\* an async call traversal returned after three callbacks settled
ThreeCallbacksSettled ==
    /\ Finished
    /\ fn \in CallAsyncFns
    /\ Len(settled) = 3

\* C9: in the indirect traversals, when several elements of nodeList carry the
\* identifier equal to the current node's link value, the next node is the first such
\* element in nodeList order.
FirstMatchIsNext ==
    fn \in IdFns =>
        \A i \in 1..Len(resolved) :
            LET m == Matches(visitedNodes[i]) IN
            (nodes[visitedNodes[i]].link # Undefined /\ m # {}) =>
                /\ resolved[i].next = nodeList[Min(m)]
                /\ \A j \in m : j # Min(m) => resolved[i].next # nodeList[j]
                /\ Len(visitedNodes) > i => visitedNodes[i + 1] = nodeList[Min(m)]

\* the walk moved to the first of two list elements with the linked identifier
MovedToFirstOfTwoMatches ==
    /\ fn \in IdFns
    /\ \E i \in 1..Len(resolved) :
        /\ nodes[visitedNodes[i]].link # Undefined
        /\ Cardinality(Matches(visitedNodes[i])) >= 2
        /\ Len(visitedNodes) > i
        /\ visitedNodes[i + 1] = nodeList[Min(Matches(visitedNodes[i]))]

\* C10: a node whose link field is undefined ends the walk in both modes; in the
\* indirect traversals no identifier comparison is made for that node, and no list
\* element (one whose identifier is undefined included) becomes the next node.
AbsentLinkEndsWalkWithoutSearch ==
    \A i \in 1..Len(resolved) :
        nodes[visitedNodes[i]].link = Undefined =>
            /\ resolved[i].stop
            /\ resolved[i].next = Undefined
            /\ resolved[i].comparisons = 0
            /\ Len(visitedNodes) = i
            /\ pc # "recursion"

\* an indirect walk ended at a node without link while the list holds a node without
\* identifier
EndedAtAbsentLinkBesideAbsentId ==
    /\ Finished
    /\ fn \in IdFns
    /\ Len(visitedNodes) >= 2
    /\ nodes[visitedNodes[Len(visitedNodes)]].link = Undefined
    /\ \E j \in 1..Len(nodeList) : nodes[nodeList[j]].id = Undefined

\* C11: when the callback fails at a node (it throws, or its promise rejects in the
\* async traversals), no callback is invoked for a later node, no value is returned,
\* and the failure that reaches the caller of the traversal is the callback's own.
AbortsOnCallbackFailure ==
    fn \in CallFns =>
        /\ \A i \in 1..Len(calls) :
            CallbackThrows(calls[i].node) =>
                /\ Len(calls) = i
                /\ Len(visitedNodes) = i
                /\ pc \in (IF fn \in CallSyncFns THEN {"failed"} ELSE {"await", "failed"})
                /\ result = UndefinedValue
                /\ Failed => thrown = CallbackError(calls[i].node)
        /\ Failed => (calls # << >> /\ CallbackThrows(calls[Len(calls)].node))
        /\ thrown # NoFailure => Failed
        /\ Finished => thrown = NoFailure

\* an async traversal was aborted at the second node of a chain that goes on to a third
AbortedBeforeThirdNode ==
    /\ Failed
    /\ fn \in CallAsyncFns
    /\ Len(calls) = 2
    /\ Len(Chain) = 3
    /\ thrown = CallbackError(Chain[2])

\* C12: no step of a traversal writes to its inputs: the fields of every node, the
\* elements and the order of nodeList, and the other arguments are after each step
\* what they were before it; what changes is the traversal's own state, which starts
\* from an empty visited list and no accumulated value.
NoInputWritten ==
    /\ [](pc = "call" => (visitedNodes = << >> /\ returnValue = UndefinedValue
                            /\ result = UndefinedValue))
    /\ [][/\ nodes' = nodes
          /\ nodeList' = nodeList
          /\ startNode' = startNode
          /\ data' = data]_vars

\* an indirect merge traversal returned after three nodes and at least one merge call
MergedThreeNodesThroughList ==
    /\ Finished
    /\ fn = "walkChainIdMerge"
    /\ Len(visitedNodes) = 3
    /\ Len(nodeList) = 2
    /\ mergeCalls # << >>

EndNodeYieldsOwnValue ==
    fn \in MergeFns =>
        /\ pc \in {"return", "done"} =>
            LET end == visitedNodes[Len(visitedNodes)] IN
            /\ \A j \in 1..Len(mergeCalls) : mergeCalls[j].node # end
            /\ Len(mergeCalls) <= Len(visitedNodes) - 1
            /\ Len(stack) = Len(visitedNodes) - 1 => returnValue = LocalValue(end)
        /\ (Finished /\ Len(Chain) = 1) =>
            /\ visitedNodes = <<startNode>>
            /\ result = LocalValue(startNode)
            /\ mergeCalls = << >>
        /\ (Finished /\ \A i \in 1..Len(visitedNodes) :
                           LocalValue(visitedNodes[i]) = UndefinedValue) =>
            /\ result = UndefinedValue
            /\ mergeCalls = << >>

\* a merge traversal of a start node linked to itself returned the node's own value
MergedSelfLinkedStart ==
    /\ Finished
    /\ fn \in MergeFns
    /\ Linked(startNode) = startNode
    /\ LocalValue(startNode) # UndefinedValue
    /\ result = LocalValue(startNode)
    /\ mergeCalls = << >>

\* C15: the second definitions of walkChainCall, walkChainMerge, walkChainIdCall and
\* walkChainIdMerge (lines 369-498) are safe on a chain with a cycle: no node is
\* processed again, the runtime does not run out of frames, and the traversal returns
\* the result computed at the node where the repeat occurs.
LegacyCycleSafe ==
    ~Acyclic =>
        /\ Len(resolved) <= Len(Chain)
        /\ pc # "overflow"
        /\ Len(resolved) = Len(Chain) => pc \in {"return", "done"}

\* C16: at every point of a cycle-checking traversal visitedNodes holds no node twice
\* and is the sequence of the nodes processed so far, in the order of the chain; so
\* the callback invocations (or property reads) are never more than the distinct
\* nodes, and in the indirect traversals never more than Len(nodeList) + 1.
VisitedIsProcessedSequence ==
    LET chain == Chain IN
    /\ NoDuplicates(visitedNodes)
    /\ Len(visitedNodes) <= Len(chain)
    /\ \A i \in 1..Len(visitedNodes) : visitedNodes[i] = chain[i]
    /\ fn \in CallFns => visitedNodes = [i \in 1..Len(calls) |-> calls[i].node]
    /\ fn \in MergeFns =>
        /\ Len(resolved) = Len(visitedNodes)
        /\ pc = "recursion" => visitedNodes = [i \in 1..Len(stack) |-> stack[i].node]
    /\ Len(visitedNodes) <= Cardinality(DOMAIN nodes)
    /\ Len(calls) <= Cardinality(DOMAIN nodes)
    /\ fn \in IdFns =>
        /\ Len(visitedNodes) <= Len(nodeList) + 1
        /\ Len(calls) <= Len(nodeList) + 1

\* an indirect call traversal from a start node outside the list visited every node
VisitedWholeListAndStart ==
    /\ Finished
    /\ fn \in IdFns \cap CallFns
    /\ Len(nodeList) = 2
    /\ Len(calls) = Len(nodeList) + 1
    /\ ~Acyclic

\* C17: on a nodeList with defined, pairwise distinct identifiers that contains the
\* start node, walkChainIdCallSync and walkChainIdMerge visit the nodes, make the merge
\* calls and return the value (or fail with the failure) that walkChainCallSync and
\* walkChainMerge do on the direct-link structure of the same nodes, with or without a
\* cycle; the direct traversals are the functions WalkDirect, CallAlong, MergeAlong.
ResolutionStrategiesAgree ==
    (/\ fn \in CallSyncFns \cup MergeFns
     /\ fn \in IdFns => DistinctIdsWithStartListed) =>
        LET direct == IF fn \in DirectFns THEN nodes ELSE DirectStructure
            path == WalkDirect(direct, << >>, startNode)
            upTo == IF failing \in Range(path)
                    THEN SubSeq(path, 1, CHOOSE i \in 1..Len(path) : path[i] = failing)
                    ELSE path
        IN /\ IsPrefix(visitedNodes, upTo)
           /\ pc # "overflow"
           /\ Failed => (visitedNodes = upTo /\ thrown = CallbackError(failing))
           /\ Finished =>
               /\ visitedNodes = path
               /\ fn \in CallFns => result = CallAlong(path, 1, UndefinedValue, data)
               /\ fn \in MergeFns =>
                   /\ result = MergeAlong(direct, path, 1)
                   /\ mergeCalls = MergeCallsAlong(direct, path, 1)

\* an indirect merge traversal over distinct identifiers merged a two-node cycle
MergedTwoNodeCycleThroughList ==
    /\ Finished
    /\ fn = "walkChainIdMerge"
    /\ DistinctIdsWithStartListed
    /\ Len(visitedNodes) = 2
    /\ Linked(visitedNodes[2]) = startNode
    /\ Len(mergeCalls) = 1

\* C18: async walkChainCall and walkChainIdCall invoke the callback for the nodes,
\* with the arguments, in the order of walkChainCallSync and walkChainIdCallSync on the
\* same arguments, and resolve to the value the synchronous traversal returns (or
\* reject with the failure it throws), however long each callback takes to settle;
\* the synchronous traversals are the functions WalkDirect, WalkId and CallAlong.
AsyncAgreesWithSync ==
    fn \in CallFns =>
        LET path == IF fn \in DirectFns THEN WalkDirect(nodes, << >>, startNode)
                    ELSE WalkId(nodes, nodeList, << >>, startNode)
            upTo == IF failing \in Range(path)
                    THEN SubSeq(path, 1, CHOOSE i \in 1..Len(path) : path[i] = failing)
                    ELSE path
        IN /\ IsPrefix(visitedNodes, upTo)
           /\ \A i \in 1..Len(calls) :
               /\ calls[i].node = path[i]
               /\ calls[i].data = data
               /\ calls[i].lastValue =
                      IF i = 1 THEN UndefinedValue
                      ELSE CallAlong(SubSeq(path, 1, i - 1), 1, UndefinedValue, data)
           /\ Failed => (visitedNodes = upTo /\ thrown = CallbackError(failing))
           /\ Finished =>
               /\ visitedNodes = path
               /\ Len(calls) = Len(path)
               /\ result = CallAlong(path, 1, UndefinedValue, data)

\* async walkChainIdCall resolved after three callbacks on a chain that ends in a cycle
AsyncResolvedOnCycle ==
    /\ Finished
    /\ fn = "walkChainIdCall"
    /\ Len(calls) = 3
    /\ Len(settled) = 3
    /\ ~Acyclic
    /\ result = CallAlong(visitedNodes, 1, UndefinedValue, data)

====
